---- MODULE Spec2Model ----
(***************************************************************************)
(* libsurv.datasets: the packaged-dataset loaders (METABRIC, WHAS), the    *)
(* simulated-data loader and the generic CSV loader load_data, modelled    *)
(* from src/libsurv/datasets/__init__.py.                                  *)
(*                                                                         *)
(* A call of a public function is one action: the whole body runs, and    *)
(* the way it ended (a returned value or a raised exception) is left in    *)
(* `outcome`.  A table (pandas DataFrame) is a record                      *)
(*   [columns : sequence of names, index : sequence of row labels,         *)
(*    data : sequence of rows, each a sequence aligned with columns].      *)
(***************************************************************************)
EXTENDS Integers, Sequences, FiniteSets, TLC

VARIABLES
    fs,         \* the files on disk: path -> table, or Missing
    call,       \* the last call made: [fn, args]
    outcome,    \* how it ended: [kind, exc, shape, tables]
    np_random,  \* state of the pseudo-random generator left by the last sampling
    stale,      \* TRUE when the last call found a generator state other than its seed's
    draws       \* number of sampling steps the last call ran

vars == <<fs, call, outcome, np_random, stale, draws>>

(***************************************************************************)
(* Bounds of the model.                                                    *)
(***************************************************************************)
MaxRows == 2        \* rows of a CSV file on disk
MaxN == 2           \* largest N asked of the simulator
MaxFeatures == 2    \* largest num_features asked of the simulator
EndTimes == {2, 3}  \* the end_time values asked of the simulator
Seeds == {0, 1}     \* the seeds asked of the simulator

(***************************************************************************)
(* Outcomes of a call.                                                     *)
(***************************************************************************)
Missing == [columns |-> <<>>, index |-> <<>>, data |-> <<>>, missing |-> TRUE]

Idle == [kind |-> "none", exc |-> "", shape |-> "none", tables |-> <<>>]
Raise(exc) == [kind |-> "raise", exc |-> exc, shape |-> "none", tables |-> <<>>]
Return(t) == [kind |-> "return", exc |-> "", shape |-> "table", tables |-> <<t>>]
ReturnPair(a, b) == [kind |-> "return", exc |-> "", shape |-> "pair", tables |-> <<a, b>>]

Range(n) == [i \in 1..n |-> i - 1]

(***************************************************************************)
(* Python name resolution.  A name in a function body is looked up in the  *)
(* function's locals, then in the module's globals; a name bound in        *)
(* neither raises NameError (no builtin is called d_train, d_test,         *)
(* filename or ShuffleSplit).  ModuleGlobals are the names the module      *)
(* binds: its imports and its defs.                                        *)
(***************************************************************************)
ModuleGlobals ==
    { "pd", "resource_filename", "SimulatedData",
      "survival_stats", "survival_df", "survival_dmat", "__ALL__",
      "_load_dataset", "load_metabric_train", "load_metabric_test", "load_metabric",
      "load_whas_train", "load_whas_test", "load_whas",
      "load_simulated_data", "load_data" }

Lookup(name, locals) ==
    IF name \in DOMAIN locals THEN [kind |-> "ok", value |-> locals[name]]
    ELSE IF name \in ModuleGlobals THEN [kind |-> "ok", value |-> [global |-> name]]
    ELSE [kind |-> "raise", value |-> "NameError"]

(***************************************************************************)
(* pandas operations the loaders use.                                      *)
(***************************************************************************)
\* pd.read_csv(path): the file's table with a fresh 0-based index
read_csv(files, path) ==
    IF path \notin DOMAIN files \/ files[path] = Missing
    THEN [kind |-> "raise", value |-> "ResourceNotFound"]
    ELSE [kind |-> "ok",
          value |-> [columns |-> files[path].columns,
                     index |-> Range(Len(files[path].data)),
                     data |-> files[path].data]]

\* pd.concat([a, b], axis=0) of two tables with the same columns
concat_rows(a, b) ==
    [columns |-> a.columns, index |-> a.index \o b.index, data |-> a.data \o b.data]

\* DataFrame.reset_index(drop=True)
reset_index(t) == [t EXCEPT !.index = Range(Len(t.data))]

(***************************************************************************)
(* The packaged loaders.                                                   *)
(***************************************************************************)
_load_dataset(files, filename) == read_csv(files, "datasets/src/" \o filename)

load_metabric_train(files) == _load_dataset(files, "metabric_train.csv")
load_metabric_test(files) == _load_dataset(files, "metabric_test.csv")
load_whas_train(files) == _load_dataset(files, "whas_train.csv")
load_whas_test(files) == _load_dataset(files, "whas_test.csv")

\* The body shared by load_metabric and load_whas: load both splits into
\* data_train and data_test, then concatenate the names d_train and d_test.
load_combined(data_train, data_test) ==
    IF data_train.kind = "raise" THEN Raise(data_train.value)
    ELSE IF data_test.kind = "raise" THEN Raise(data_test.value)
    ELSE LET locals == [n \in {"data_train", "data_test"} |->
                            IF n = "data_train" THEN data_train.value ELSE data_test.value]
             d_train == Lookup("d_train", locals)
             d_test == Lookup("d_test", locals)
         IN  IF d_train.kind = "raise" THEN Raise(d_train.value)
             ELSE IF d_test.kind = "raise" THEN Raise(d_test.value)
             ELSE Return(reset_index(concat_rows(d_train.value, d_test.value)))

load_metabric(files) == load_combined(load_metabric_train(files), load_metabric_test(files))
load_whas(files) == load_combined(load_whas_train(files), load_whas_test(files))

AsOutcome(r) == IF r.kind = "raise" THEN Raise(r.value) ELSE Return(r.value)

(***************************************************************************)
(* Files on disk.  A packaged CSV has the columns x, t, e; row k of the    *)
(* row pool is a distinct concrete row.                                    *)
(***************************************************************************)
PackagedPaths ==
    { "datasets/src/metabric_train.csv", "datasets/src/metabric_test.csv",
      "datasets/src/whas_train.csv", "datasets/src/whas_test.csv" }

SeqsUpTo(S, n) == UNION { [1..k -> S] : k \in 0..n }

PackagedRows == { <<5, 1, 1>>, <<7, 2, 0>> }

PackagedTables ==
    { [columns |-> <<"x", "t", "e">>, index |-> Range(Len(d)), data |-> d] :
        d \in SeqsUpTo(PackagedRows, MaxRows) }

NoSampling == /\ np_random = 0 /\ stale = FALSE /\ draws = 0

InitPackaged ==
    /\ fs \in [PackagedPaths -> PackagedTables \cup {Missing}]
    /\ call = [fn |-> "none", args |-> <<>>]
    /\ outcome = Idle
    /\ NoSampling

CallPackaged(fn, result) ==
    /\ call' = [fn |-> fn, args |-> <<>>]
    /\ outcome' = result
    /\ UNCHANGED <<fs, np_random, stale, draws>>

LoadMetabricTrain == CallPackaged("load_metabric_train", AsOutcome(load_metabric_train(fs)))
LoadMetabricTest == CallPackaged("load_metabric_test", AsOutcome(load_metabric_test(fs)))
LoadMetabric == CallPackaged("load_metabric", load_metabric(fs))
LoadWhasTrain == CallPackaged("load_whas_train", AsOutcome(load_whas_train(fs)))
LoadWhasTest == CallPackaged("load_whas_test", AsOutcome(load_whas_test(fs)))
LoadWhas == CallPackaged("load_whas", load_whas(fs))

NextPackaged ==
    \/ LoadMetabricTrain
    \/ LoadMetabricTest
    \/ LoadMetabric
    \/ LoadWhasTrain
    \/ LoadWhasTest
    \/ LoadWhas

SpecPackaged == InitPackaged /\ [][NextPackaged]_vars

\* The table the combined loader is documented to return
Combined(train, test) ==
    [columns |-> train.columns,
     index |-> Range(Len(train.data) + Len(test.data)),
     data |-> train.data \o test.data]

BothExist(a, b) == fs[a] # Missing /\ fs[b] # Missing

\* C1: when both backing files exist, load_metabric and load_whas complete
\* without raising and return the train rows followed by the test rows,
\* unchanged, under the row index 0..n-1.
C1_CombinedLoaders ==
    /\ (call.fn = "load_metabric"
          /\ BothExist("datasets/src/metabric_train.csv", "datasets/src/metabric_test.csv"))
        => outcome = Return(Combined(fs["datasets/src/metabric_train.csv"],
                                     fs["datasets/src/metabric_test.csv"]))
    /\ (call.fn = "load_whas"
          /\ BothExist("datasets/src/whas_train.csv", "datasets/src/whas_test.csv"))
        => outcome = Return(Combined(fs["datasets/src/whas_train.csv"],
                                     fs["datasets/src/whas_test.csv"]))

(***************************************************************************)
(* The simulator SimulatedData (module data_simulator, imported at line 4  *)
(* and not part of the sources at hand) as the specification describes it. *)
(* Real-valued draws are replaced by small integers produced by a          *)
(* deterministic generator; what the loader's properties depend on is only *)
(* that a sample is a function of the generator state and the parameters.  *)
(***************************************************************************)
Methods == {"linear", "gaussian"}

\* The pseudo-random generator: the state a seed sets, and one step of it
Seeded(seed) == seed % 8
Step(s) == (5 * s + 3) % 8

\* The states the generator passes through in n steps from s
RECURSIVE Stream(_, _)
Stream(s, n) == IF n = 0 THEN <<>> ELSE <<Step(s)>> \o Stream(Step(s), n - 1)

Last(s, stream) == IF stream = <<>> THEN s ELSE stream[Len(stream)]

Uniform(s) == (s % 3) - 1                   \* a covariate in -1..1
Exponential(s, mean) == 1 + (s % (2 * mean)) \* a waiting time around mean

Max(a, b) == IF a >= b THEN a ELSE b

RECURSIVE SumTo(_, _)
SumTo(f, n) == IF n = 0 THEN 0 ELSE f[n] + SumTo(f, n - 1)

\* SimulatedData(hr_ratio, average_death, end_time, num_features, num_var)
SimulatedData(hr_ratio, average_death, end_time, num_features, num_var) ==
    IF num_var > num_features
    THEN [kind |-> "raise", value |-> "InvalidParameter"]
    ELSE [kind |-> "ok",
          value |-> [hr_ratio |-> hr_ratio, average_death |-> average_death,
                     end_time |-> end_time, m |-> num_features, num_var |-> num_var]]

\* The covariates: N rows of gen.m draws each, the first N * gen.m of the stream
Covariates(gen, N, stream) ==
    [i \in 1..N |-> [j \in 1..gen.m |-> Uniform(stream[(i - 1) * gen.m + j])]]

\* The risk score of one subject from its first num_var covariates
Risk(gen, method, xi) ==
    IF method = "linear"
    THEN SumTo(xi, gen.num_var)
    ELSE Cardinality({j \in 1..gen.num_var : xi[j] = 0})

\* The true event time of each subject: an exponential draw, shortened by risk
DeathTimes(gen, N, method, stream) ==
    LET x == Covariates(gen, N, stream)
    IN  [i \in 1..N |->
            Max(1, Exponential(stream[N * gen.m + i], gen.average_death)
                     - (gen.hr_ratio - 1) * Risk(gen, method, x[i]))]

\* Censoring at end_time
Observed(gen, d) == IF d > gen.end_time THEN gen.end_time ELSE d
Event(gen, d) == IF d > gen.end_time THEN 0 ELSE 1

\* The sample drawn from generator state s0
Sample(gen, N, method, s0) ==
    LET stream == Stream(s0, N * gen.m + N)
        d == DeathTimes(gen, N, method, stream)
    IN  [kind |-> "ok",
         value |-> [x |-> Covariates(gen, N, stream),
                    e |-> [i \in 1..N |-> Event(gen, d[i])],
                    t |-> [i \in 1..N |-> Observed(gen, d[i])]],
         rng |-> Last(s0, stream),
         draws |-> Len(stream)]

\* A generator that goes on from the state it finds instead of seeding
generate_data_unseeded(gen, N, method, seed, state) ==
    IF N <= 0 \/ method \notin Methods
    THEN [kind |-> "raise", value |-> "InvalidParameter", rng |-> state, draws |-> 0]
    ELSE Sample(gen, N, method, state)

\* generate_data(N, method, gaussian_config, seed), called with the generator
\* in `state`: the arguments are checked first, the generator is seeded, then
\* covariates and event times are drawn and censored
generate_data(gen, N, method, seed, state) ==
    IF N <= 0 \/ method \notin Methods
    THEN [kind |-> "raise", value |-> "InvalidParameter", rng |-> state, draws |-> 0]
    ELSE Sample(gen, N, method, Seeded(seed))

(***************************************************************************)
(* load_simulated_data.                                                    *)
(***************************************************************************)
\* A constructor call with num_features and num_var exchanged
make_generator_swapped(a) ==
    SimulatedData(a.hr_ratio, a.average_death, a.end_time, a.num_var, a.num_features)

\* A constructor call that passes average_death as end_time
make_generator_wrong_end(a) ==
    SimulatedData(a.hr_ratio, a.average_death, a.average_death, a.num_features, a.num_var)

\* generator = SimulatedData(hr_ratio, average_death=..., end_time=..., ...)
make_generator(a) ==
    SimulatedData(a.hr_ratio, a.average_death, a.end_time, a.num_features, a.num_var)

\* ['x_' + str(i) for i in range(num_features)]
FeatureNames(num_features) == [i \in 1..num_features |-> "x_" \o ToString(i - 1)]

\* pd.DataFrame(matrix, columns=names)
DataFrame(matrix, names) ==
    IF \E i \in DOMAIN matrix : Len(matrix[i]) # Len(names)
    THEN [kind |-> "raise", value |-> "ValueError"]
    ELSE [kind |-> "ok",
          value |-> [columns |-> names, index |-> Range(Len(matrix)), data |-> matrix]]

\* df[name] = values, for a new column name
set_column(df, name, values) ==
    [columns |-> Append(df.columns, name),
     index |-> df.index,
     data |-> [i \in DOMAIN df.data |-> Append(df.data[i], values[i])]]

\* A table assembly that stores the times under e and the events under t
to_frame_crossed(raw_data, num_features) ==
    LET df == DataFrame(raw_data.x, FeatureNames(num_features))
    IN  IF df.kind = "raise" THEN df
        ELSE [kind |-> "ok",
              value |-> set_column(set_column(df.value, "e", raw_data.t), "t", raw_data.e)]

\* df = pd.DataFrame(raw_data['x'], ...); df['e'] = raw_data['e']; df['t'] = raw_data['t']
to_frame(raw_data, num_features) ==
    LET df == DataFrame(raw_data.x, FeatureNames(num_features))
    IN  IF df.kind = "raise" THEN df
        ELSE [kind |-> "ok",
              value |-> set_column(set_column(df.value, "e", raw_data.e), "t", raw_data.t)]

\* The whole call, with the generator in `state` when it starts
load_simulated_data(a, state) ==
    LET generator == make_generator(a)
    IN  IF generator.kind = "raise"
        THEN [out |-> Raise(generator.value), rng |-> state, draws |-> 0]
        ELSE LET raw_data == generate_data(generator.value, a.N, a.method, a.seed, state)
             IN  IF raw_data.kind = "raise"
                 THEN [out |-> Raise(raw_data.value), rng |-> raw_data.rng,
                       draws |-> raw_data.draws]
                 ELSE LET df == to_frame(raw_data.value, a.num_features)
                      IN  [out |-> AsOutcome(df), rng |-> raw_data.rng,
                           draws |-> raw_data.draws]

SimArgs ==
    [hr_ratio : {2}, average_death : {2},
     N : -1..MaxN, num_features : 1..MaxFeatures, num_var : 1..(MaxFeatures + 1),
     end_time : EndTimes, method : Methods \cup {"cubic"}, seed : Seeds]

InitSimulated ==
    /\ fs = [p \in PackagedPaths |-> Missing]
    /\ call = [fn |-> "none", args |-> <<>>]
    /\ outcome = Idle
    /\ NoSampling

LoadSimulatedData ==
    \E a \in SimArgs :
        LET r == load_simulated_data(a, np_random)
        IN  /\ call' = [fn |-> "load_simulated_data", args |-> a]
            /\ outcome' = r.out
            /\ np_random' = r.rng
            /\ draws' = r.draws
            /\ stale' = (np_random # Seeded(a.seed))
            /\ UNCHANGED fs

NextSimulated == LoadSimulatedData

SpecSimulated == InitSimulated /\ [][NextSimulated]_vars

IsSim == call.fn = "load_simulated_data"

Rejected(a) == a.num_var > a.num_features \/ a.N <= 0 \/ a.method \notin Methods

\* C6: a call with num_var > num_features, N <= 0 or an unsupported method
\* fails with InvalidParameter before any sampling step, with no table.
C6_RejectsEagerly ==
    (IsSim /\ Rejected(call.args))
        => /\ outcome = Raise("InvalidParameter")
           /\ draws = 0

C6_Witness ==
    /\ IsSim
    /\ call.args.num_var > call.args.num_features
    /\ call.args.N > 0
    /\ call.args.method \in Methods
    /\ outcome = Raise("InvalidParameter")
    /\ draws = 0

\* The simulator parameters a call's arguments ask for
AskedGenerator(a) ==
    [hr_ratio |-> a.hr_ratio, average_death |-> a.average_death,
     end_time |-> a.end_time, m |-> a.num_features, num_var |-> a.num_var]

\* The true event times of the subjects of a call with arguments a
TrueDeathTimes(a) ==
    DeathTimes(AskedGenerator(a), a.N, a.method,
               Stream(Seeded(a.seed), a.N * a.num_features + a.N))

ColumnIndex(table, name) == CHOOSE k \in DOMAIN table.columns : table.columns[k] = name
Cell(table, i, name) == table.data[i][ColumnIndex(table, name)]

Returned == IsSim /\ outcome.kind = "return"

\* C7: in every returned record, a true death time d beyond end_time gives
\* t = end_time and e = 0, any other d (d = end_time included) gives t = d and
\* e = 1; so t <= end_time and e is 0 or 1.
C7_Censoring ==
    Returned =>
        LET a == call.args
            table == outcome.tables[1]
            d == TrueDeathTimes(a)
        IN  \A i \in 1..Len(table.data) :
                LET t == Cell(table, i, "t")
                    e == Cell(table, i, "e")
                IN  /\ d[i] > a.end_time => (t = a.end_time /\ e = 0)
                    /\ d[i] <= a.end_time => (t = d[i] /\ e = 1)
                    /\ t <= a.end_time
                    /\ e \in {0, 1}

\* A returned table with a subject dying exactly at end_time and a censored one
C7_Witness ==
    /\ Returned
    /\ LET a == call.args
           table == outcome.tables[1]
           d == TrueDeathTimes(a)
       IN  /\ \E i \in 1..Len(table.data) :
                 d[i] = a.end_time /\ Cell(table, i, "e") = 1
           /\ \E i \in 1..Len(table.data) :
                 d[i] > a.end_time /\ Cell(table, i, "e") = 0

\* C8: the outcome of a call is the one its arguments give from the initial
\* generator state, whatever state earlier calls left behind; two calls with
\* the same arguments therefore end the same.
C8_DependsOnlyOnArguments ==
    IsSim => outcome = load_simulated_data(call.args, 0).out

\* A table returned by a call that found the generator in another state than
\* the one its seed sets
C8_Witness ==
    /\ Returned
    /\ stale
    /\ Len(outcome.tables[1].data) > 1

\* C9: for valid parameters the table has N rows and the columns
\* x_0 .. x_{num_features-1}, e, t, and row i holds the covariates, the event
\* indicator and the observed time of subject i.
C9_TableLayout ==
    (IsSim /\ ~Rejected(call.args)) =>
        /\ outcome.kind = "return"
        /\ outcome.shape = "table"
        /\ LET a == call.args
               table == outcome.tables[1]
               raw == Sample(AskedGenerator(a), a.N, a.method, Seeded(a.seed)).value
           IN  /\ Len(table.data) = a.N
               /\ Len(table.columns) = a.num_features + 2
               /\ \A k \in 1..a.num_features :
                     table.columns[k] = "x_" \o ToString(k - 1)
               /\ table.columns[a.num_features + 1] = "e"
               /\ table.columns[a.num_features + 2] = "t"
               /\ \A i \in 1..a.N :
                     table.data[i] = raw.x[i] \o <<raw.e[i], raw.t[i]>>

\* A table of several subjects whose events and times differ
C9_Witness ==
    /\ Returned
    /\ call.args.N = MaxN
    /\ call.args.num_features = MaxFeatures
    /\ \E i \in 1..call.args.N :
          Cell(outcome.tables[1], i, "e") # Cell(outcome.tables[1], i, "t")

(***************************************************************************)
(* load_data.  Ratios are in percent (split_ratio = 1.0 is 100).  The      *)
(* errors pandas raises for a missing file and a missing column are named  *)
(* ResourceNotFound and ColumnNotFound.                                    *)
(***************************************************************************)
Elements(seq) == { seq[k] : k \in DOMAIN seq }

\* frame[cols]: the named columns, in the order asked; a name the frame
\* lacks is an error
select_columns(frame, cols) ==
    IF \E k \in DOMAIN cols : cols[k] \notin Elements(frame.columns)
    THEN [kind |-> "raise", value |-> "ColumnNotFound"]
    ELSE [kind |-> "ok",
          value |-> [columns |-> cols,
                     index |-> frame.index,
                     data |-> [i \in DOMAIN frame.data |->
                                 [k \in DOMAIN cols |-> Cell(frame, i, cols[k])]]]]

RECURSIVE SumColumn(_, _, _)
SumColumn(frame, k, n) ==
    IF n = 0 THEN 0 ELSE frame.data[n][k] + SumColumn(frame, k, n - 1)

ColumnMax(frame, k) ==
    CHOOSE v \in { frame.data[i][k] : i \in DOMAIN frame.data } :
        \A i \in DOMAIN frame.data : frame.data[i][k] <= v
ColumnMin(frame, k) ==
    CHOOSE v \in { frame.data[i][k] : i \in DOMAIN frame.data } :
        \A i \in DOMAIN frame.data : frame.data[i][k] >= v

\* (x - mean) / (max - min) of every column of X, a cell being the quotient
\* num / den with mean = sum / n multiplied out; den = 0 is the NaN of a
\* constant column
normalize_columns(X) ==
    LET n == Len(X.data)
    IN  [X EXCEPT !.data =
            [i \in DOMAIN X.data |->
                [k \in DOMAIN X.columns |->
                    [num |-> n * X.data[i][k] - SumColumn(X, k, n),
                     den |-> n * (ColumnMax(X, k) - ColumnMin(X, k))]]]]

\* pd.concat([a, b], axis=1) of two frames with the same index
concat_columns(a, b) ==
    [columns |-> a.columns \o b.columns,
     index |-> a.index,
     data |-> [i \in DOMAIN a.data |-> a.data[i] \o b.data[i]]]

\* frame.loc[labels, :] for positions given as 0-based labels
loc_rows(frame, labels) ==
    [columns |-> frame.columns,
     index |-> labels,
     data |-> [k \in DOMAIN labels |-> frame.data[labels[k] + 1]]]

\* ShuffleSplit(n_splits=1, test_size=1 - split_ratio, random_state=seed):
\* a seeded permutation of 0..n-1 (here a rotation by the seed), its first
\* ceil(test_size * n) labels the test rows and the rest the train rows
Permutation(n, seed) == [i \in 1..n |-> (i - 1 + seed) % n]
TestCount(n, split_ratio) == ((100 - split_ratio) * n + 99) \div 100
shuffle_split(n, split_ratio, seed) ==
    LET perm == Permutation(n, seed)
        n_test == TestCount(n, split_ratio)
    IN  IF n - n_test <= 0 \/ n_test <= 0
        THEN [kind |-> "raise", value |-> "ValueError"]
        ELSE [kind |-> "ok",
              value |-> [test_index |-> SubSeq(perm, 1, n_test),
                         train_index |-> SubSeq(perm, n_test + 1, n)]]

LoadDataParams ==
    {"file_path", "t_col", "e_col", "excluded_cols", "split_ratio", "normalize", "seed"}

\* The columns that are neither targets nor excluded, in file order
FeatureColumns(columns, a) ==
    SelectSeq(columns,
              LAMBDA x : x \notin Elements(<<a.t_col, a.e_col>> \o a.excluded_cols))

\* The split branch of the body
split_branch(X, y, a) ==
    LET ShuffleSplit == Lookup("ShuffleSplit", [n \in LoadDataParams |-> a[n]])
    IN  IF ShuffleSplit.kind = "raise" THEN Raise(ShuffleSplit.value)
        ELSE LET sss == shuffle_split(Len(X.data), a.split_ratio, a.seed)
             IN  IF sss.kind = "raise" THEN Raise(sss.value)
                 ELSE ReturnPair(
                        concat_columns(loc_rows(X, sss.value.train_index),
                                       loc_rows(y, sss.value.train_index)),
                        concat_columns(loc_rows(X, sss.value.test_index),
                                       loc_rows(y, sss.value.test_index)))

\* The whole body: the file is read through the name `filename`
load_data(files, a) ==
    LET filename == Lookup("filename", [n \in LoadDataParams |-> a[n]])
    IN  IF filename.kind = "raise" THEN Raise(filename.value)
        ELSE LET data_all == read_csv(files, filename.value)
             IN  IF data_all.kind = "raise" THEN Raise(data_all.value)
                 ELSE LET Y_cols == <<a.t_col, a.e_col>>
                          X_cols == FeatureColumns(data_all.value.columns, a)
                          X == select_columns(data_all.value, X_cols)
                          y == select_columns(data_all.value, Y_cols)
                      IN  IF y.kind = "raise" THEN Raise(y.value)
                          ELSE LET Xn == IF a.normalize
                                         THEN normalize_columns(X.value)
                                         ELSE X.value
                               IN  IF a.split_ratio = 100
                                   THEN Return(concat_columns(Xn, y.value))
                                   ELSE split_branch(Xn, y.value, a)

CsvLayouts == { <<"a", "id", "t", "e">>, <<"a", "b", "t", "e">>, <<"a", "id", "e">> }

\* Row r of a file: the value under column k is r + k
CsvTables ==
    { [columns |-> cols,
       index |-> Range(Len(rs)),
       data |-> [i \in DOMAIN rs |-> [k \in DOMAIN cols |-> rs[i] + k]]] :
         cols \in CsvLayouts, rs \in SeqsUpTo({0, 3}, MaxRows) }

LoadDataArgs ==
    [file_path : {"data.csv", "absent.csv"}, t_col : {"t"}, e_col : {"e"},
     excluded_cols : {<<>>, <<"id">>}, split_ratio : {100, 80, 50},
     normalize : BOOLEAN, seed : Seeds]

InitLoadData ==
    /\ fs \in [{"data.csv"} -> CsvTables]
    /\ call = [fn |-> "none", args |-> <<>>]
    /\ outcome = Idle
    /\ NoSampling

LoadData ==
    \E a \in LoadDataArgs :
        /\ call' = [fn |-> "load_data", args |-> a]
        /\ outcome' = load_data(fs, a)
        /\ UNCHANGED <<fs, np_random, stale, draws>>

NextLoadData == LoadData

SpecLoadData == InitLoadData /\ [][NextLoadData]_vars

IsLoadData == call.fn = "load_data"
Input == fs[call.args.file_path]
InputExists == call.args.file_path \in DOMAIN fs
HasTargets ==
    /\ InputExists
    /\ call.args.t_col \in Elements(Input.columns)
    /\ call.args.e_col \in Elements(Input.columns)

\* C2: with split_ratio = 1.0 and an input holding t_col and e_col, load_data
\* reads the file at file_path and returns one table with the input's row
\* count and the columns X_cols followed by t_col, e_col.
C2_FullTable ==
    (IsLoadData /\ call.args.split_ratio = 100 /\ HasTargets)
        => /\ outcome.kind = "return"
           /\ outcome.shape = "table"
           /\ Len(outcome.tables[1].data) = Len(Input.data)
           /\ outcome.tables[1].columns =
                 SelectSeq(Input.columns,
                           LAMBDA x : /\ x \notin {call.args.t_col, call.args.e_col}
                                      /\ x \notin Elements(call.args.excluded_cols))
                   \o <<call.args.t_col, call.args.e_col>>

\* C3: with 0 < split_ratio < 1, load_data returns two tables whose row counts
\* sum to the input's and whose source rows are disjoint: every input row is
\* in exactly one of them.
C3_SplitPartitions ==
    (IsLoadData /\ call.args.split_ratio > 0 /\ call.args.split_ratio < 100
        /\ HasTargets)
        => /\ outcome.kind = "return"
           /\ outcome.shape = "pair"
           /\ LET train == outcome.tables[1]
                  test == outcome.tables[2]
              IN  /\ Len(train.data) + Len(test.data) = Len(Input.data)
                  /\ Elements(train.index) \cap Elements(test.index) = {}
                  /\ Elements(train.index) \cup Elements(test.index)
                        = Elements(Range(Len(Input.data)))

\* C4: load_data (on an input holding t_col and e_col) returns a single table
\* exactly when split_ratio = 1.0 and a pair of tables for every other
\* split_ratio.
C4_ReturnShape ==
    (IsLoadData /\ HasTargets)
        => /\ call.args.split_ratio = 100 => outcome.shape = "table"
           /\ call.args.split_ratio # 100 => outcome.shape = "pair"

\* C5: load_data fails with ColumnNotFound, returning no table, whenever
\* t_col, e_col or a column of excluded_cols is absent from the input.
C5_ColumnNotFound ==
    (IsLoadData /\ InputExists
        /\ \E c \in {call.args.t_col, call.args.e_col} \cup Elements(call.args.excluded_cols) :
              c \notin Elements(Input.columns))
        => outcome = Raise("ColumnNotFound")

\* C10: with normalize set, the returned table has the t_col and e_col values,
\* the columns, the row count and the row order it has with normalize unset,
\* and no column of excluded_cols.
C10_NormalizeFrame ==
    (IsLoadData /\ call.args.normalize /\ call.args.split_ratio = 100 /\ HasTargets)
        => /\ outcome.kind = "return"
           /\ LET plain == load_data(fs, [call.args EXCEPT !.normalize = FALSE])
                  table == outcome.tables[1]
              IN  /\ plain.kind = "return"
                  /\ table.columns = plain.tables[1].columns
                  /\ table.index = plain.tables[1].index
                  /\ \A i \in DOMAIN table.data :
                        \A c \in {call.args.t_col, call.args.e_col} :
                            Cell(table, i, c) = Cell(plain.tables[1], i, c)
                  /\ Elements(table.columns) \cap Elements(call.args.excluded_cols) = {}

====
